---- MODULE Spec2Model ----
(***************************************************************************)
(* Model of threaded_parser.py: run_scraper (the supervisor), the worker   *)
(* threads running start_image_loader, the shared ArticlesProvider queue,  *)
(* the GracefulKiller signal handler and the write_log lock.               *)
(***************************************************************************)
EXTENDS Integers, Sequences, FiniteSets, TLC

\* ------------------------------------------------------------------ bounds
MaxArticles == 2      \* largest requested article count (-n)
MaxThreads == 2       \* largest requested thread count
MaxImgs == 2          \* largest number of image links found in one article
MaxSignals == 2       \* number of SIGINT/SIGTERM deliveries considered

\* ------------------------------------------------------- program constants
PAGE_SIZE == 20       \* articles taken from one listing page

Main == 0             \* the main thread (run_scraper and the signal handler)
Workers == 1..MaxThreads

WINDOWS_DIRECTORY_INVALID_SYMBOLS ==
    << <<"<">>, <<">">>, <<":">>, <<"\"">>, <<"\\">>, <<"/">>, <<"|">>,
       <<"?">>, <<"*">>, <<"&", "n", "b", "s", "p", ";">>, <<"xa0">> >>

\* Titles the title regexp may yield (strings are sequences of characters).
Titles == { <<"a", ":">>, <<"b">> }

Min(a, b) == IF a < b THEN a ELSE b

\* ------------------------------------------------------------ pure helpers
HasPrefix(str, sym) ==
    /\ Len(sym) <= Len(str)
    /\ SubSeq(str, 1, Len(sym)) = sym

\* str.replace(sym, ''): left to right, non-overlapping occurrences removed.
RECURSIVE Replace(_, _)
Replace(str, sym) ==
    IF str = <<>> THEN <<>>
    ELSE IF HasPrefix(str, sym)
         THEN Replace(SubSeq(str, Len(sym) + 1, Len(str)), sym)
         ELSE <<Head(str)>> \o Replace(Tail(str), sym)

\* for s in WINDOWS_DIRECTORY_INVALID_SYMBOLS: name = name.replace(s, '')
RECURSIVE SanitizeFrom(_, _)
SanitizeFrom(name, k) ==
    IF k > Len(WINDOWS_DIRECTORY_INVALID_SYMBOLS) THEN name
    ELSE SanitizeFrom(Replace(name, WINDOWS_DIRECTORY_INVALID_SYMBOLS[k]), k + 1)

directory_name(name) == SanitizeFrom(name, 1)

\* ------------------------------------------------------------------- state
VARIABLES
    articles_count,  \* args.n
    threads,         \* args.threads
    mpc,             \* position of the main thread inside run_scraper
    exc,             \* exception that left run_scraper, "none" if none
    n,               \* loop variable of get_articles_links
    links,           \* number of links collected by get_articles_links
    articles,        \* list built by get_articles_info: [name, images_links]
    queue,           \* provider.articles: item indexes into articles
    nthreads,        \* threads after line 158 (the clamp)
    pool,            \* number of threads created and started
    joined,          \* number of threads of pool already joined
    graceful_kill,   \* GracefulKiller.graceful_kill
    handlers,        \* stack of running exit_gracefully invocations (top last)
    signals,         \* signals delivered so far
    kill_log,        \* '___Graceful kill___' lines printed
    log_writing_lock,\* set of threads holding log_writing_lock (empty: free)
    wpc,             \* position of each worker inside start_image_loader
    werr,            \* exception that ended each worker thread, "none" if none
    article_info,    \* item each worker is handling (0: none)
    i,               \* loop variable of download_all_images per worker
    dirs,            \* directories existing under out_path
    files,           \* files written: <<directory, i>>
    attempts,        \* per item: indexes passed to download_image, in order
    failed,          \* download_image calls that raised: <<item, i>>
    delivered,       \* per item: workers that got it from the queue, in order
    taken_after_kill \* per worker: items taken while graceful_kill was set

mainVars == <<articles_count, threads, mpc, exc, n, links, articles, nthreads,
              pool, joined>>
killVars == <<graceful_kill, handlers, signals, kill_log>>
workVars == <<wpc, werr, article_info, i>>
fsVars == <<dirs, files, attempts, failed>>
histVars == <<delivered, taken_after_kill>>
vars == <<mainVars, killVars, workVars, fsVars, histVars, queue,
          log_writing_lock>>

Items == 1..Len(articles)

\* State right after killer = GracefulKiller() (line 154): handlers installed.
Init ==
    /\ articles_count \in 0..MaxArticles
    /\ threads \in 1..MaxThreads
    /\ mpc = "links"
    /\ exc = "none"
    /\ n = articles_count
    /\ links = 0
    /\ articles = <<>>
    /\ queue = <<>>
    /\ nthreads = 0
    /\ pool = 0
    /\ joined = 0
    /\ graceful_kill = FALSE
    /\ handlers = <<>>
    /\ signals = 0
    /\ kill_log = 0
    /\ log_writing_lock = {}
    /\ wpc = [w \in Workers |-> "idle"]
    /\ werr = [w \in Workers |-> "none"]
    /\ article_info = [w \in Workers |-> 0]
    /\ i = [w \in Workers |-> 0]
    /\ dirs = {}
    /\ files = {}
    /\ attempts = <<>>
    /\ failed = {}
    /\ delivered = <<>>
    /\ taken_after_kill = [w \in Workers |-> 0]

\* The main thread runs its own code only while no handler invocation is
\* on top of it.
MainRuns == handlers = <<>>

\* --------------------------------------------------- list construction
\* One iteration of the while loop of get_articles_links. load_content
\* either fails (None, and .decode() raises AttributeError) or yields a
\* page on which the regexp finds `found` links; get_items keeps the first
\* min(n, 20) of them.
get_articles_links ==
    /\ mpc = "links"
    /\ MainRuns
    /\ n > 0
    /\ \/ /\ mpc' = "raised"
          /\ exc' = "AttributeError"
          /\ UNCHANGED <<n, links>>
       \/ \E found \in 0..MaxArticles :
            /\ links' = links + Min(found, Min(n, PAGE_SIZE))
            /\ n' = n - PAGE_SIZE
            /\ UNCHANGED <<mpc, exc>>
    /\ UNCHANGED <<articles_count, threads, articles, nthreads, pool, joined,
                   killVars, workVars, fsVars, histVars, queue,
                   log_writing_lock>>

\* (variant: a missing title is noted but the loop goes on)
get_articles_info_no_raise ==
    /\ mpc = "links"
    /\ MainRuns
    /\ n <= 0
    /\ IF Len(articles) < links
       THEN \/ /\ mpc' = "raised"
               /\ exc' = "AttributeError"
               /\ UNCHANGED articles
            \/ \E imgs \in 0..MaxImgs :
                 /\ exc' = "Exception"
                 /\ articles' = Append(articles,
                                       [name |-> <<>>, images_links |-> imgs])
                 /\ UNCHANGED mpc
            \/ \E name \in Titles, imgs \in 0..MaxImgs :
                 /\ articles' = Append(articles,
                                       [name |-> name, images_links |-> imgs])
                 /\ UNCHANGED <<mpc, exc>>
       ELSE /\ mpc' = "provider"
            /\ UNCHANGED <<exc, articles>>
    /\ UNCHANGED <<articles_count, threads, n, links, nthreads, pool, joined,
                   killVars, workVars, fsVars, histVars, queue,
                   log_writing_lock>>

\* One iteration of the for loop of get_articles_info, or its return when
\* the links are used up (the while loop of get_articles_links has ended).
get_articles_info ==
    /\ mpc = "links"
    /\ MainRuns
    /\ n <= 0
    /\ IF Len(articles) < links
       THEN \/ /\ mpc' = "raised"           \* title page not loaded
               /\ exc' = "AttributeError"
               /\ UNCHANGED articles
            \/ /\ mpc' = "raised"           \* no title on the page
               /\ exc' = "Exception"
               /\ UNCHANGED articles
            \/ /\ mpc' = "raised"           \* parse_images: page not loaded
               /\ exc' = "AttributeError"
               /\ UNCHANGED articles
            \/ \E name \in Titles, imgs \in 0..MaxImgs :
                 /\ articles' = Append(articles,
                                       [name |-> name, images_links |-> imgs])
                 /\ UNCHANGED <<mpc, exc>>
       ELSE /\ mpc' = "provider"
            /\ UNCHANGED <<exc, articles>>
    /\ UNCHANGED <<articles_count, threads, n, links, nthreads, pool, joined,
                   killVars, workVars, fsVars, histVars, queue,
                   log_writing_lock>>

\* ------------------------------------------------------------- supervisor
\* ArticlesProvider.is_finish
is_finish == queue = <<>>

\* Lines 156-158: ArticlesProvider(...) puts every article into the queue,
\* pool = [], threads = min(threads, articles_count).
ArticlesProvider ==
    /\ mpc = "provider"
    /\ MainRuns
    /\ queue' = [k \in Items |-> k]
    /\ nthreads' = Min(threads, articles_count)
    /\ attempts' = [k \in Items |-> <<>>]
    /\ delivered' = [k \in Items |-> <<>>]
    /\ mpc' = "spawn"
    /\ UNCHANGED <<articles_count, threads, exc, n, links, articles, pool,
                   joined, killVars, workVars, dirs, files, failed,
                   taken_after_kill, log_writing_lock>>

\* Lines 159-164: one iteration of the thread-creating loop, or its end.
start_thread ==
    /\ mpc = "spawn"
    /\ MainRuns
    /\ IF pool < nthreads
       THEN /\ pool' = pool + 1
            /\ wpc' = [wpc EXCEPT ![pool + 1] = "start"]
            /\ UNCHANGED mpc
       ELSE /\ mpc' = "poll"
            /\ UNCHANGED <<pool, wpc>>
    /\ UNCHANGED <<articles_count, threads, exc, n, links, articles, nthreads,
                   joined, killVars, werr, article_info, i, fsVars, histVars,
                   queue, log_writing_lock>>

\* Lines 166-167: one test of the polling loop; time.sleep(1) changes nothing.
poll ==
    /\ mpc = "poll"
    /\ MainRuns
    /\ IF graceful_kill \/ is_finish
       THEN mpc' = "join"
       ELSE UNCHANGED mpc
    /\ UNCHANGED <<articles_count, threads, exc, n, links, articles, nthreads,
                   pool, joined, killVars, workVars, fsVars, histVars, queue,
                   log_writing_lock>>

\* (variant: join that does not wait for the thread)
joinable_always(w) == TRUE

\* Thread.join returns once the thread has ended, normally or by an
\* uncaught exception.
joinable(w) == wpc[w] \in {"done", "raised"}

\* Lines 169-170: th.join() for the next thread of pool, or the return of
\* run_scraper after the last one.
join ==
    /\ mpc = "join"
    /\ MainRuns
    /\ IF joined < pool
       THEN /\ joinable(joined + 1)
            /\ joined' = joined + 1
            /\ UNCHANGED mpc
       ELSE /\ mpc' = "done"
            /\ UNCHANGED joined
    /\ UNCHANGED <<articles_count, threads, exc, n, links, articles, nthreads,
                   pool, killVars, workVars, fsVars, histVars, queue,
                   log_writing_lock>>

\* --------------------------------------------------------- signal handler
\* (variant: handler that flips the event instead of setting it)
exit_gracefully_toggle ==
    /\ mpc \notin {"done", "raised"}
    /\ signals < MaxSignals
    /\ signals' = signals + 1
    /\ graceful_kill' = ~graceful_kill
    /\ handlers' = Append(handlers, "log")
    /\ UNCHANGED <<mainVars, kill_log, workVars, fsVars, histVars, queue,
                   log_writing_lock>>

\* A signal arrives and exit_gracefully starts on the main thread, on top
\* of whatever it was running (an earlier invocation included); its first
\* statement sets the event.
exit_gracefully ==
    /\ mpc \notin {"done", "raised"}
    /\ signals < MaxSignals
    /\ signals' = signals + 1
    /\ graceful_kill' = TRUE
    /\ handlers' = Append(handlers, "log")
    /\ UNCHANGED <<mainVars, kill_log, workVars, fsVars, histVars, queue,
                   log_writing_lock>>

Top == handlers[Len(handlers)]
SetTop(pc) == [handlers EXCEPT ![Len(handlers)] = pc]
Pop == SubSeq(handlers, 1, Len(handlers) - 1)

\* write_log in the handler: `with log_writing_lock` waits for the lock.
handler_acquire ==
    /\ handlers # <<>>
    /\ Top = "log"
    /\ log_writing_lock = {}
    /\ log_writing_lock' = {Main}
    /\ handlers' = SetTop("print")
    /\ UNCHANGED <<mainVars, graceful_kill, signals, kill_log, workVars,
                   fsVars, histVars, queue>>

\* print of '___Graceful kill___', lock released, handler returns.
handler_print ==
    /\ handlers # <<>>
    /\ Top = "print"
    /\ kill_log' = kill_log + 1
    /\ log_writing_lock' = {}
    /\ handlers' = Pop
    /\ UNCHANGED <<mainVars, graceful_kill, signals, workVars, fsVars,
                   histVars, queue>>

\* ---------------------------------------------------------------- workers
LogPoints == {"start", "handling", "end", "finish"}

Printing(pc) ==
    CASE pc = "start" -> "start_print"
      [] pc = "handling" -> "handling_print"
      [] pc = "end" -> "end_print"
      [] pc = "finish" -> "finish_print"

AfterLog(pc) ==
    CASE pc = "start_print" -> "check"
      [] pc = "handling_print" -> "exists"
      [] pc = "end_print" -> "check"
      [] pc = "finish_print" -> "done"

\* (variant: write_log that prints without waiting for the lock)
write_log_acquire_no_wait(w) ==
    /\ wpc[w] \in LogPoints
    /\ log_writing_lock' = log_writing_lock \cup {w}
    /\ wpc' = [wpc EXCEPT ![w] = Printing(@)]
    /\ UNCHANGED <<mainVars, killVars, werr, article_info, i, fsVars,
                   histVars, queue>>

\* write_log in a worker: `with log_writing_lock` waits for the lock.
write_log_acquire(w) ==
    /\ wpc[w] \in LogPoints
    /\ log_writing_lock = {}
    /\ log_writing_lock' = {w}
    /\ wpc' = [wpc EXCEPT ![w] = Printing(@)]
    /\ UNCHANGED <<mainVars, killVars, werr, article_info, i, fsVars,
                   histVars, queue>>

\* print of the line and release of the lock.
write_log_print(w) ==
    /\ wpc[w] \in {Printing(pc) : pc \in LogPoints}
    /\ log_writing_lock' = {}
    /\ wpc' = [wpc EXCEPT ![w] = AfterLog(@)]
    /\ UNCHANGED <<mainVars, killVars, werr, article_info, i, fsVars,
                   histVars, queue>>

\* (variant: loop test that does not look at the event)
loop_test_ignores_kill(w) ==
    /\ wpc[w] = "check"
    /\ wpc' = [wpc EXCEPT ![w] = "empty"]
    /\ UNCHANGED <<mainVars, killVars, werr, article_info, i, fsVars,
                   histVars, queue, log_writing_lock>>

\* Line 134: while not killer.graceful_kill.is_set()
loop_test(w) ==
    /\ wpc[w] = "check"
    /\ wpc' = [wpc EXCEPT ![w] = IF graceful_kill THEN "finish" ELSE "empty"]
    /\ UNCHANGED <<mainVars, killVars, werr, article_info, i, fsVars,
                   histVars, queue, log_writing_lock>>

\* Lines 43-44 and 136-137: if self.articles.empty(): return None; break.
get_article_empty(w) ==
    /\ wpc[w] = "empty"
    /\ wpc' = [wpc EXCEPT ![w] = IF queue = <<>> THEN "finish" ELSE "get"]
    /\ UNCHANGED <<mainVars, killVars, werr, article_info, i, fsVars,
                   histVars, queue, log_writing_lock>>

\* (variant: get that leaves the item in the queue)
queue_get_peek(q) == [item |-> Head(q), rest |-> q]

\* (variant: get that returns the item put last)
queue_get_lifo(q) == [item |-> q[Len(q)], rest |-> SubSeq(q, 1, Len(q) - 1)]

\* queue.Queue.get(): the item at the front and the queue without it.
queue_get(q) == [item |-> Head(q), rest |-> Tail(q)]

\* (variant: take that does not skip an article without image links)
get_article_to_handle_no_skip(w) ==
    /\ wpc[w] = "get"
    /\ queue # <<>>
    /\ LET got == queue_get(queue) IN
         /\ queue' = got.rest
         /\ article_info' = [article_info EXCEPT ![w] = got.item]
         /\ delivered' = [delivered EXCEPT ![got.item] = Append(@, w)]
         /\ wpc' = [wpc EXCEPT ![w] = "handling"]
    /\ taken_after_kill' =
         [taken_after_kill EXCEPT ![w] = IF graceful_kill THEN @ + 1 ELSE @]
    /\ UNCHANGED <<mainVars, killVars, werr, i, fsVars, log_writing_lock>>

\* Line 45 and 138-139: return self.articles.get(), which waits while the
\* queue is empty; an article without image links is skipped.
get_article_to_handle(w) ==
    /\ wpc[w] = "get"
    /\ queue # <<>>
    /\ LET got == queue_get(queue) IN
         /\ queue' = got.rest
         /\ article_info' = [article_info EXCEPT ![w] = got.item]
         /\ delivered' = [delivered EXCEPT ![got.item] = Append(@, w)]
         /\ wpc' = [wpc EXCEPT ![w] =
                      IF articles[got.item].images_links = 0
                      THEN "check" ELSE "handling"]
    /\ taken_after_kill' =
         [taken_after_kill EXCEPT ![w] = IF graceful_kill THEN @ + 1 ELSE @]
    /\ UNCHANGED <<mainVars, killVars, werr, i, fsVars, log_writing_lock>>

out_dir(w) == directory_name(articles[article_info[w]].name)

\* Line 84: if not os.path.exists(out_dir)
path_exists(w) ==
    /\ wpc[w] = "exists"
    /\ wpc' = [wpc EXCEPT ![w] =
                 IF out_dir(w) \in dirs THEN "download" ELSE "mkdir"]
    /\ i' = [i EXCEPT ![w] = 0]
    /\ UNCHANGED <<mainVars, killVars, werr, article_info, fsVars, histVars,
                   queue, log_writing_lock>>

\* Line 85: os.mkdir(out_dir) raises FileExistsError on an existing path;
\* the exception is caught nowhere and ends the thread.
mkdir(w) ==
    /\ wpc[w] = "mkdir"
    /\ IF out_dir(w) \in dirs
       THEN /\ wpc' = [wpc EXCEPT ![w] = "raised"]
            /\ werr' = [werr EXCEPT ![w] = "FileExistsError"]
            /\ UNCHANGED dirs
       ELSE /\ wpc' = [wpc EXCEPT ![w] = "download"]
            /\ dirs' = dirs \cup {out_dir(w)}
            /\ UNCHANGED werr
    /\ UNCHANGED <<mainVars, killVars, article_info, i, files, attempts,
                   failed, histVars, queue, log_writing_lock>>

\* Lines 86-87 and 80: one iteration of the for loop. urlretrieve either
\* writes the file or raises; the exception is caught nowhere and ends the
\* thread.
download_image(w) ==
    /\ wpc[w] = "download"
    /\ LET it == article_info[w] IN
         /\ attempts' = [attempts EXCEPT ![it] = Append(@, i[w])]
         /\ \/ /\ files' = files \cup {<<out_dir(w), i[w]>>}
               /\ i' = [i EXCEPT ![w] = @ + 1]
               /\ wpc' = [wpc EXCEPT ![w] =
                            IF i[w] + 1 < articles[it].images_links
                            THEN "download" ELSE "end"]
               /\ UNCHANGED <<werr, failed>>
            \/ /\ failed' = failed \cup {<<it, i[w]>>}
               /\ wpc' = [wpc EXCEPT ![w] = "raised"]
               /\ werr' = [werr EXCEPT ![w] = "URLError"]
               /\ UNCHANGED <<files, i>>
    /\ UNCHANGED <<mainVars, killVars, article_info, dirs, histVars, queue,
                   log_writing_lock>>

\* ----------------------------------------------------------- specification
Next ==
    \/ get_articles_links
    \/ get_articles_info
    \/ ArticlesProvider
    \/ start_thread
    \/ poll
    \/ join
    \/ exit_gracefully
    \/ handler_acquire
    \/ handler_print
    \/ \E w \in Workers : write_log_acquire(w)
    \/ \E w \in Workers : write_log_print(w)
    \/ \E w \in Workers : loop_test(w)
    \/ \E w \in Workers : get_article_empty(w)
    \/ \E w \in Workers : get_article_to_handle(w)
    \/ \E w \in Workers : path_exists(w)
    \/ \E w \in Workers : mkdir(w)
    \/ \E w \in Workers : download_image(w)

Spec == Init /\ [][Next]_vars

\* ------------------------------------------------------------- properties
Terminated(w) == wpc[w] \in {"done", "raised"}
Started == 1..pool
Built == mpc \in {"spawn", "poll", "join", "done"}

\* Number of positions of the queue holding item k.
InQueue(k) == Cardinality({j \in 1..Len(queue) : queue[j] = k})

\* The indexes download_all_images passes for item k: 0 .. len(links) - 1.
AllIndexes(k) == [j \in 1..articles[k].images_links |-> j - 1]

\* C1: every item of the initial list is either in the queue (once) and
\* returned to nobody, or out of the queue and returned by exactly one take
\* to exactly one worker.
C1_ExactlyOnceDelivery ==
    Built => \A k \in Items :
               \/ InQueue(k) = 1 /\ delivered[k] = <<>>
               \/ InQueue(k) = 0 /\ Len(delivered[k]) = 1

\* Two workers hold different items taken in the order opposite to their
\* start order: the takes interleaved.
C1_Witness ==
    /\ Built
    /\ Len(articles) = 2
    /\ queue = <<>>
    /\ delivered = << <<2>>, <<1>> >>
    /\ wpc[1] = "handling"
    /\ wpc[2] = "handling"

\* C3: the take never waits: no worker is inside articles.get() while the
\* queue is empty.
C3_TakeNeverBlocks ==
    \A w \in Workers : ~(wpc[w] = "get" /\ queue = <<>>)

\* The phases of the run, read off the position of the main thread.
Phase ==
    CASE mpc \in {"links", "provider"} -> "IDLE"
      [] mpc \in {"spawn", "poll"} -> "RUNNING"
      [] mpc = "join" -> "DRAINING"
      [] mpc = "done" -> "STOPPED"
      [] mpc = "raised" -> "ABORTED"

PhaseStep ==
    \/ Phase' = Phase
    \/ Phase = "IDLE" /\ Phase' \in {"RUNNING", "ABORTED"}
    \/ Phase = "RUNNING" /\ Phase' = "DRAINING"
    \/ Phase = "DRAINING" /\ Phase' = "STOPPED"

\* C4: when run_scraper has returned every started worker has ended, and
\* the run goes IDLE -> RUNNING -> DRAINING -> STOPPED one phase at a time.
C4_JoinBeforeReturn ==
    /\ [](mpc = "done" => \A w \in Started : Terminated(w))
    /\ [][PhaseStep]_vars

\* run_scraper has returned after a cancellation that came before any
\* take, with two workers started.
C4_Witness ==
    /\ mpc = "done"
    /\ pool = 2
    /\ graceful_kill
    /\ Len(queue) = 2
    /\ \A w \in Started : wpc[w] = "done"

\* A worker waits inside `with log_writing_lock` or inside articles.get().
WorkerWaits(w) ==
    \/ wpc[w] \in LogPoints /\ log_writing_lock # {}
    \/ wpc[w] = "get" /\ queue = <<>>

WorkerRuns(w) == wpc[w] \notin {"idle", "done", "raised"} /\ ~WorkerWaits(w)

\* The main thread waits inside the handler's `with log_writing_lock` or
\* inside th.join().
MainWaits ==
    IF handlers # <<>>
    THEN Top = "log" /\ log_writing_lock # {}
    ELSE mpc = "join" /\ joined < pool /\ ~joinable(joined + 1)

\* C2: run_scraper eventually returns under fair scheduling, which needs
\* that from the construction of the queue to the return some thread of the
\* program is always able to take a step: never is every thread waiting or
\* ended (left aside the runs in which a worker thread is ended by an
\* exception or a signal interrupts the handler itself).
C2_EventuallyReturns ==
    (/\ mpc \in {"spawn", "poll", "join"}
     /\ \A w \in Workers : wpc[w] # "raised"
     /\ Len(handlers) <= 1)
    => (~MainWaits \/ \E w \in Workers : WorkerRuns(w))

\* C5: after a full run without cancellation, with 1 <= N <= K, the queue
\* is empty and every item was taken by exactly one worker exactly once and
\* had each of its resources passed to the download step.
C5_FullRunProcessesAll ==
    (/\ mpc = "done"
     /\ ~graceful_kill
     /\ threads <= Len(articles))
    => /\ queue = <<>>
       /\ \A k \in Items : /\ Len(delivered[k]) = 1
                           /\ attempts[k] = AllIndexes(k)

\* C6: the number of workers started is min(N, number of items placed in
\* the queue).
C6_PoolClamp ==
    mpc \in {"poll", "join", "done"} => pool = Min(threads, Len(articles))

\* C7: a failed download ends neither the item's remaining downloads nor
\* the worker: the worker is not ended by the exception, and once it has
\* left the item's download loop every resource of the item was attempted.
C7_FailureAbsorbed ==
    \A f \in failed :
      LET k == f[1]
          w == delivered[k][1]
      IN /\ wpc[w] # "raised"
         /\ (wpc[w] # "download" \/ article_info[w] # k)
              => attempts[k] = AllIndexes(k)

\* A loop test that runs with the event set leads to the end of the worker
\* and takes nothing.
C8_LoopTestStops ==
    \A w \in Workers :
      (graceful_kill /\ wpc[w] = "check" /\ wpc'[w] # wpc[w])
        => /\ wpc'[w] = "finish"
           /\ delivered' = delivered

\* C8: a worker takes at most one item while the event is set; a worker
\* whose loop test runs with the event set goes to its end without a take;
\* and run_scraper returns only after joining every started worker.
C8_AtMostOneTakeAfterKill ==
    /\ [](\A w \in Workers : taken_after_kill[w] <= 1)
    /\ [](mpc = "done" => joined = pool /\ \A w \in Started : Terminated(w))
    /\ [][C8_LoopTestStops]_vars

\* Both workers passed their loop test before the event was set, each took
\* one item afterwards and the run returned.
C8_Witness ==
    /\ mpc = "done"
    /\ pool = 2
    /\ \A w \in Started : taken_after_kill[w] = 1 /\ wpc[w] = "done"

\* C9: after any number (>= 1) of completed handler invocations the event
\* is set and exactly one '___Graceful kill___' line was printed.
C9_IdempotentCancellation ==
    (signals >= 1 /\ handlers = <<>>) => (graceful_kill /\ kill_log = 1)

\* Download attempts recorded for items 1..k, and their resource counts.
RECURSIVE SumLen(_, _)
SumLen(f, k) == IF k = 0 THEN 0 ELSE Len(f[k]) + SumLen(f, k - 1)

RECURSIVE SumImgs(_)
SumImgs(k) == IF k = 0 THEN 0 ELSE articles[k].images_links + SumImgs(k - 1)

\* C10: after a run with no cancellation and no failed download every
\* resource of every item was attempted exactly once in index order (so the
\* attempts number the sum of the resource counts), and items with
\* resources have pairwise different destination directories.
C10_AllResourcesAttempted ==
    (mpc = "done" /\ ~graceful_kill /\ failed = {})
    => /\ \A k \in Items : attempts[k] = AllIndexes(k)
       /\ SumLen(attempts, Len(articles)) = SumImgs(Len(articles))
       /\ \A k, l \in Items :
            (k # l /\ articles[k].images_links > 0
                   /\ articles[l].images_links > 0)
              => directory_name(articles[k].name)
                   # directory_name(articles[l].name)

\* A take that returns an article without image links removes it from the
\* queue, sends the worker back to its loop test and changes nothing else.
C11_SkipStep ==
    \A w \in Workers :
      (/\ wpc[w] = "get"
       /\ wpc'[w] # "get"
       /\ articles[Head(queue)].images_links = 0)
      => /\ queue' = Tail(queue)
         /\ wpc'[w] = "check"
         /\ UNCHANGED <<mainVars, killVars, werr, i, fsVars, log_writing_lock>>
         /\ \A v \in Workers \ {w} : wpc'[v] = wpc[v]

\* C11: an item with zero resources is consumed from the queue with no
\* download attempt and no directory or file created for it, and the worker
\* goes on to its next loop iteration with everything else unchanged.
C11_EmptyItemNoOp ==
    /\ [](Built => \A k \in Items :
            articles[k].images_links = 0 => attempts[k] = <<>>)
    /\ [](Built => \A d \in dirs : \E k \in Items :
            /\ articles[k].images_links > 0
            /\ d = directory_name(articles[k].name))
    /\ [][C11_SkipStep]_vars

\* An item without resources was taken, nothing was written, and the worker
\* that took it went on to take the next item.
C11_Witness ==
    /\ Built
    /\ Len(articles) = 2
    /\ articles[1].images_links = 0
    /\ delivered = << <<1>>, <<1>> >>
    /\ dirs = {}
    /\ files = {}
    /\ wpc[1] = "handling"

\* C12: once the event is set it stays set: no step clears it.
C12_NeverCleared == [][graceful_kill => graceful_kill']_vars

\* The handler ran twice to completion and the event is set.
C12_Witness ==
    /\ graceful_kill
    /\ signals = 2
    /\ handlers = <<>>
    /\ kill_log = 2

\* C13: the handler never waits: whenever an invocation of exit_gracefully
\* is about to enter `with log_writing_lock`, the lock is free, so the main
\* thread is never held inside the handler.
C13_HandlerNeverWaits ==
    (handlers # <<>> /\ Top = "log") => log_writing_lock = {}

\* C14: when every started worker has ended and the event is not set, the
\* queue is empty: a worker ends only on the set event or on the empty
\* signal of the take.
C14_WorkersEndOnlyOnEmptyOrKill ==
    (/\ mpc \in {"poll", "join", "done"}
     /\ pool > 0
     /\ \A w \in Started : Terminated(w)
     /\ ~graceful_kill)
    => queue = <<>>

\* C15: creating the destination directory never fails: no worker is ended
\* by the FileExistsError of os.mkdir.
C15_MkdirNeverFails ==
    \A w \in Workers : werr[w] # "FileExistsError"

\* The items 1..k of the list, in list order.
Upto(k) == [j \in 1..k |-> j]

\* A take returns item k only when every item before k has been returned.
C16_TakeInOrder ==
    \A k \in DOMAIN delivered :
      delivered'[k] # delivered[k]
        => \A j \in 1..(k - 1) : delivered[j] # <<>>

\* C16: items leave the queue in list order: the queue always holds a tail
\* of the list, the items before it have all been returned, and the take
\* that returns an item comes after the takes of all items before it.
C16_FifoDelivery ==
    /\ [](Built =>
            /\ queue = SubSeq(Upto(Len(articles)),
                              Len(articles) - Len(queue) + 1, Len(articles))
            /\ \A k \in Items :
                 delivered[k] # <<>> <=> k <= Len(articles) - Len(queue))
    /\ [][C16_TakeInOrder]_vars

\* The second worker took the first item while the first worker is inside
\* its own take; the second item is still queued.
C16_Witness ==
    /\ Built
    /\ Len(articles) = 2
    /\ queue = <<2>>
    /\ delivered[1] = <<2>>
    /\ wpc[1] = "get"

\* Once the missing title has been raised nothing of the run changes.
C17_NothingAfterRaise ==
    exc = "Exception"
      => UNCHANGED <<mainVars, workVars, fsVars, histVars, queue>>

\* C17: when no title is found for a page the run is ended by the raised
\* exception before any worker exists: no thread was started, no item was
\* taken, no download was attempted, and nothing of that happens later.
C17_AbortBeforeWorkers ==
    /\ [](exc = "Exception"
            => /\ mpc = "raised"
               /\ pool = 0
               /\ \A w \in Workers : wpc[w] = "idle"
               /\ queue = <<>> /\ delivered = <<>> /\ attempts = <<>>
               /\ dirs = {} /\ files = {})
    /\ [][C17_NothingAfterRaise]_vars

\* The second of two pages had no title, after the first article was built.
C17_Witness ==
    /\ exc = "Exception"
    /\ mpc = "raised"
    /\ links = 2
    /\ Len(articles) = 1

\* C18: a page that cannot be fetched counts as a page with no items:
\* get_items returns an empty result and no run is ended by an exception
\* of the failed fetch.
C18_FailedFetchIsEmpty == exc # "AttributeError"

\* Threads inside the print of write_log.
PrintingWorkers == {w \in Workers : wpc[w] \in {Printing(pc) : pc \in LogPoints}}
PrintingHandlers == {j \in 1..Len(handlers) : handlers[j] = "print"}

\* C19: at most one thread, a worker or the main thread inside the signal
\* handler, is inside the print of write_log at any time, and it is the
\* thread that holds log_writing_lock.
C19_LogSerialized ==
    /\ Cardinality(PrintingWorkers) + Cardinality(PrintingHandlers) <= 1
    /\ log_writing_lock =
         PrintingWorkers \cup (IF PrintingHandlers = {} THEN {} ELSE {Main})

\* One worker prints while the other worker and the signal handler both
\* wait for the lock.
C19_Witness ==
    /\ wpc[1] = "handling_print"
    /\ wpc[2] \in LogPoints
    /\ handlers = <<"log">>
    /\ log_writing_lock = {1}

\* C20: with no item in the queue no worker is started.
C20_ZeroItemsZeroWorkers ==
    (mpc \in {"poll", "join", "done"} /\ Len(articles) = 0) => pool = 0

====
